---- MODULE Spec2Model ----
(***************************************************************************)
(* Model of qsrc_strdb.py: the incremental indexer that maps the digest of *)
(* every qualifying string literal of a C/C++ tree to the names of the     *)
(* functions that contain it, with its two pickled tables (the reverse     *)
(* index --strdb and the file-digest set --filesdb).                       *)
(*                                                                         *)
(* One process runs at a time (pc # "idle"); between processes the source  *)
(* tree may be edited.  A parse run is the sequence                        *)
(*   Launch ; (Break | LoopEnd | SkipFile | ParseFile ; walk ; FileDone)*  *)
(*   ; Finish                                                              *)
(* and SIGINT (Signal) interleaves with it; the clock is read at FileDone. *)
(***************************************************************************)
EXTENDS Integers, Sequences, FiniteSets, Bags, TLC

VARIABLES
    tree,        \* the source tree: path -> content version (0: no such file)
    strdb,       \* the file args.strdb on disk: [st, val]
    filesdb,     \* the file args.filesdb on disk: [st, val]
    pc,          \* where the running process is; "idle" when none runs
    args,        \* the parsed command line of the running process
    db,          \* global db: digest -> set of function names
    fdb,         \* global fdb: set of file digests
    interrupt,   \* global interrupt
    files,       \* process_path: files
    file_num,    \* process_path: the loop's position in files (1-based)
    node,        \* process_file: position of walk_preorder()
    tok,         \* process_file: position in node.get_tokens()
    now,         \* curr_time - start_time at the last file that was completed
    save_time,   \* global save_time, relative to start_time
    out,         \* what the running query has printed
    outcome,     \* how the last process ended
    folded,      \* history: the file versions folded into db since it was empty
    pfolded,     \* history: the same for the table stored in strdb
    doneFiles,   \* history: the paths the last run enumerated, when it completed
                 \*          and the tree has not changed under them since
    resume       \* history: the tables and the path the first of a chain of
                 \*          runs started from, each but the last interrupted

vars == <<tree, strdb, filesdb, pc, args, db, fdb, interrupt, files, file_num,
          node, tok, now, save_time, out, outcome, folded, pfolded, doneFiles,
          resume>>

disk == <<strdb, filesdb>>
proc == <<args, db, fdb, interrupt, files, file_num, node, tok, now, save_time,
          out>>

----------------------------------------------------------------------------
(* Bounds of the model.                                                    *)

\* The clock readings of one process run from 0 to MaxTime.
MaxTime == 2
\* --savetime is drawn from 0..MaxSaveTime.
MaxSaveTime == 1
\* Width of a digest in bits (xxh64 has 64; the model keeps the low bits, so
\* that distinct texts with one digest exist in a small universe).
DigestBits == 4

----------------------------------------------------------------------------
(* Bytes, texts and the digest.                                            *)

\* '"', the byte a string literal's spelling starts with (line 103).
DQUOTE == 34
\* A literal qualifies when len(token.spelling) > 12 (line 104).
MinSpelling == 12

Rep(n, b) == [k \in 1..n |-> b]
Quoted(s) == <<DQUOTE>> \o s \o <<DQUOTE>>

\* xxhash: a deterministic digest of fixed width of a byte sequence, every
\* byte counted with its position; not injective.  (The sum is taken as the
\* size of the bag that holds position i (2i+1) * bytes[i] times.)
xxh64(bytes) ==
    (7 + BagCardinality([i \in 1..Len(bytes) |-> (2 * i + 1) * bytes[i]]))
        % (2 ^ DigestBits)

\* get_hash(s): the digest of a literal's text.
get_hash(s) == xxh64(s)

----------------------------------------------------------------------------
(* The source tree and what the parser makes of each file version.         *)

Paths == { [stem |-> "a", suffix |-> ".c"],
           [stem |-> "b", suffix |-> ".cpp"],
           [stem |-> "n", suffix |-> ".cc"] }
PathA == [stem |-> "a", suffix |-> ".c"]
PathB == [stem |-> "b", suffix |-> ".cpp"]
PathN == [stem |-> "n", suffix |-> ".cc"]
\* The directory that holds the three paths.
Root == [stem |-> "", suffix |-> ""]

\* The file versions (byte contents) of the universe.
Contents == {1, 2, 3, 4, 5}
NoFile == 0
\* The versions each path takes in the model.
Versions(p) == IF p = PathA THEN {NoFile, 1, 3, 5}
               ELSE IF p = PathB THEN {NoFile, 1, 2, 4}
               ELSE {2}

TxtA == Rep(10, 97) \o <<65>>    \* aaaaaaaaaaA : 11 characters
TxtC == Rep(11, 97)              \* aaaaaaaaaaa : 11 characters, digest of TxtA
TxtB == Rep(11, 98)              \* bbbbbbbbbbb : 11 characters
Txt10 == Rep(10, 116)            \* tttttttttt  : 10 characters
Txt9 == Rep(9, 115)              \* sssssssss   :  9 characters
Txt12 == <<48, 49, 50, 51, 52, 53, 54, 55, 56, 57, 65, 66>>  \* 0123456789AB

Lit(s) == [kind |-> "LITERAL", spelling |-> Quoted(s)]
Wide(s) == [kind |-> "LITERAL", spelling |-> <<76>> \o Quoted(s)]  \* L"..."
Num(n) == [kind |-> "LITERAL", spelling |-> Rep(n, 49)]            \* 111...
Ident(s) == [kind |-> "IDENTIFIER", spelling |-> s]

\* index.parse(filepath).cursor.walk_preorder(): the declaration nodes of a
\* file version in preorder, each with its kind, its spelling and its tokens.
\*   1:  const char *banner = "bbbbbbbbbbb";
\*       f() { "aaaaaaaaaaA"; "tttttttttt"; }
\*   2:  g() { "aaaaaaaaaaa"; L"bbbbbbbbbbb"; 1111111111111; }
\*       f() { "aaaaaaaaaaA"; }
\*   3:  f() { "bbbbbbbbbbb"; }     (version 1 of a.c, edited)
\*       hx() { "sssssssss"; }
\*   4:  f() { "0123456789AB"; }
\*   5:  f() { "0123456789AB"; }
\*       hx() { "sssssssss"; }
Nodes ==
    [c \in Contents |->
       CASE c = 1 -> << [kind |-> "VAR_DECL", spelling |-> "banner",
                         tokens |-> << Lit(TxtB) >>],
                        [kind |-> "FUNCTION_DECL", spelling |-> "f",
                         tokens |-> << Ident(<<102>>), Lit(TxtA), Lit(Txt10) >>] >>
         [] c = 2 -> << [kind |-> "FUNCTION_DECL", spelling |-> "g",
                         tokens |-> << Lit(TxtC), Wide(TxtB), Num(13) >>],
                        [kind |-> "FUNCTION_DECL", spelling |-> "f",
                         tokens |-> << Ident(<<102>>), Lit(TxtA) >>] >>
         [] c = 3 -> << [kind |-> "FUNCTION_DECL", spelling |-> "f",
                         tokens |-> << Ident(<<102>>), Lit(TxtB) >>],
                        [kind |-> "FUNCTION_DECL", spelling |-> "hx",
                         tokens |-> << Ident(<<104, 120>>), Lit(Txt9) >>] >>
         [] c = 4 -> << [kind |-> "FUNCTION_DECL", spelling |-> "f",
                         tokens |-> << Ident(<<102>>), Lit(Txt12) >>] >>
         [] c = 5 -> << [kind |-> "FUNCTION_DECL", spelling |-> "f",
                         tokens |-> << Ident(<<102>>), Lit(Txt12) >>],
                        [kind |-> "FUNCTION_DECL", spelling |-> "hx",
                         tokens |-> << Ident(<<104, 120>>), Lit(Txt9) >>] >> ]

RECURSIVE Concat(_)
Concat(seqs) == IF seqs = << >> THEN << >> ELSE Head(seqs) \o Concat(Tail(seqs))

\* The bytes of a file version: its tokens, one after the other.
FileBytes(c) ==
    Concat([n \in 1..Len(Nodes[c]) |->
              Concat([t \in 1..Len(Nodes[c][n].tokens) |->
                        Nodes[c][n].tokens[t].spelling])])

\* get_file_hash_xx(filename): the digest of the file's bytes, block after
\* block.  The versions of the universe have pairwise different digests.
get_file_hash_xx == [c \in Contents |-> xxh64(FileBytes(c))]

\* The orders in which the members of S may be listed.
Perms(S) == { q \in [1..Cardinality(S) -> S] :
                \A i, j \in 1..Cardinality(S) : i # j => q[i] # q[j] }

Range(s) == { s[k] : k \in 1..Len(s) }

\* path.rglob('*.[cp]*'): the files under the directory whose name has ".c"
\* or ".p" in it; the order is the file system's.
GlobMatch(p) == p.suffix \in {".c", ".cpp", ".cc"}
SuffixOk(p) == p.suffix \in {".c", ".cpp"}

\* get_cpp_files(path): the lists the call may return on the tree tr.
get_cpp_files(tr, path) ==
    IF path \in Paths /\ tr[path] # NoFile
      THEN { IF SuffixOk(path) THEN <<path>> ELSE << >> }
    ELSE IF path = Root
      THEN Perms({ p \in Paths : tr[p] # NoFile /\ GlobMatch(p) /\ SuffixOk(p) })
    ELSE { << >> }

----------------------------------------------------------------------------
(* The two tables, in memory and on disk.                                  *)

EmptyDb == [k \in {} |-> {}]
Keys(d) == DOMAIN d

\* Mutant of merge: a known digest keeps its entry as it is.
merge_new_only(d, hash_value, func_name) ==
    IF hash_value \notin DOMAIN d
      THEN [k \in DOMAIN d \cup {hash_value} |->
              IF k = hash_value THEN {func_name} ELSE d[k]]
      ELSE d

\* Mutant of merge: the entry of a known digest is replaced, not extended.
merge_overwrites(d, hash_value, func_name) ==
    [k \in DOMAIN d \cup {hash_value} |->
       IF k = hash_value THEN {func_name} ELSE d[k]]

\* Lines 106-109: fold one (digest, function name) pair into the index.
merge(d, hash_value, func_name) ==
    IF hash_value \notin DOMAIN d
      THEN [k \in DOMAIN d \cup {hash_value} |->
              IF k = hash_value THEN {func_name} ELSE d[k]]
      ELSE [d EXCEPT ![hash_value] = @ \cup {func_name}]

\* Mutant of Qualifies: the length test is >= 12.
Qualifies_from_12(token) ==
    /\ token.kind = "LITERAL"
    /\ Len(token.spelling) > 0 /\ token.spelling[1] = DQUOTE
    /\ Len(token.spelling) >= MinSpelling

\* Lines 103-104: the tokens of a function that are indexed.
Qualifies(token) ==
    /\ token.kind = "LITERAL"
    /\ Len(token.spelling) > 0 /\ token.spelling[1] = DQUOTE
    /\ Len(token.spelling) > MinSpelling

\* Mutant of Strip: only the opening quote is removed.
Strip_first_only(spelling) == SubSeq(spelling, 2, Len(spelling))

\* Line 102: token.spelling[1:-1].
Strip(spelling) == SubSeq(spelling, 2, Len(spelling) - 1)

\* pickle.dump / pickle.load of the index: the stream holds one item per key.
pickle_dump_db(d) == { <<k, d[k]>> : k \in DOMAIN d }
pickle_load_db(img) ==
    [k \in { e[1] : e \in img } |-> (CHOOSE e \in img : e[1] = k)[2]]

Absent(empty) == [st |-> "absent", val |-> empty]
Stored(v) == [st |-> "ok", val |-> v]
\* open(filename, 'wb') has emptied the file and the dump did not finish.
Truncated(empty) == [st |-> "partial", val |-> empty]

Loadable(file) == file.st # "partial"

\* load_db(filename): {} when the file does not exist.
load_db(file) == IF file.st = "ok" THEN pickle_load_db(file.val) ELSE EmptyDb
\* load_fdb(filename): set() when the file does not exist.
load_fdb(file) == IF file.st = "ok" THEN file.val ELSE {}

\* save_db(db, filename), for each table.
save_db(d) == Stored(pickle_dump_db(d))
save_fdb(s) == Stored(s)

\* Mutant of save_all_order: the file-digest set is written first.
save_all_fdb_first == << "filesdb", "strdb" >>

\* save_all(): the order in which the two files are written (lines 31-32).
save_all_order == << "strdb", "filesdb" >>

WritePos(name) == CHOOSE k \in 1..Len(save_all_order) : save_all_order[k] = name

\* The two files when save_all() has finished its first k writes; torn: the
\* next write has opened its file and not finished the dump.
DiskAt(old, d, s, k, torn) ==
    [name \in {"strdb", "filesdb"} |->
       IF WritePos(name) <= k
         THEN (IF name = "strdb" THEN save_db(d) ELSE save_fdb(s))
       ELSE IF WritePos(name) = k + 1 /\ torn THEN Truncated({})
       ELSE old[name]]

OnDisk == [name \in {"strdb", "filesdb"} |->
             IF name = "strdb" THEN strdb ELSE filesdb]

\* Mutant of save_all: the second table is not written.
save_all_first_only(old, d, s) == DiskAt(old, d, s, 1, FALSE)

\* save_all() run to its end.
save_all(old, d, s) == DiskAt(old, d, s, Len(save_all_order), FALSE)

----------------------------------------------------------------------------
(* The process.                                                            *)

NoArgs == [cmd |-> "none", restart |-> FALSE, savetime |-> 0,
           input_file |-> Root, string |-> << >>]

\* No chain of runs is open.
NoResume == [on |-> FALSE, resumed |-> FALSE, input |-> Root,
             base |-> [db |-> EmptyDb, fdb |-> {}]]

\* Nothing printed.
NoOutput == [text |-> "", names |-> {}, size |-> 0]

Running == pc # "idle"

\* Mutant of InitialDb: --restart is not looked at.
InitialDb_always_loads(restart, file) == load_db(file)

\* Mutant of InitialDb: the index is never loaded.
InitialDb_fresh(restart, file) == EmptyDb

\* Lines 159-164: the tables the process starts from.
InitialDb(restart, file) == IF restart THEN EmptyDb ELSE load_db(file)
InitialFdb(restart, file) == IF restart THEN {} ELSE load_fdb(file)

\* Mutant of AlreadyDone: every file is taken as known.
AlreadyDone_always(fhash, known) == TRUE

\* Mutant of AlreadyDone: every file is processed again.
AlreadyDone_never(fhash, known) == FALSE

\* Line 94: the file is skipped when its digest is known.
AlreadyDone(fhash, known) == fhash \in known

\* Mutant of LoopBreaks: the flag is not looked at.
LoopBreaks_never(flag) == FALSE

\* Line 122: the loop is left when the flag is set as a file is reached.
LoopBreaks(flag) == flag

\* Mutant of SaveDue: the checkpoint is due at the threshold already.
SaveDue_at_threshold(curr_time, last, threshold) == curr_time - last >= threshold

\* Line 116: the checkpoint is due.
SaveDue(curr_time, last, threshold) == curr_time - last > threshold

\* Mutant of CurHash: the digest of the first file of the list.
CurHash_first == get_file_hash_xx[tree[files[1]]]

\* The file version the loop is at, its digest and its nodes.
CurFile == tree[files[file_num]]
CurHash == get_file_hash_xx[CurFile]
CurNodes == Nodes[CurFile]
InFile == pc = "walk"
AtNode == InFile /\ node <= Len(CurNodes)
AtToken == AtNode /\ CurNodes[node].kind = "FUNCTION_DECL"
                  /\ tok <= Len(CurNodes[node].tokens)
\* Mutant of WalkOver: the walk stops after the first node.
WalkOver_after_first(n, nodes) == n > 1

\* Line 98: the walk has visited every node.
WalkOver(n, nodes) == n > Len(nodes)

Init ==
    /\ tree = [p \in Paths |-> IF p = PathA THEN 1 ELSE 2]
    /\ strdb = Absent({})
    /\ filesdb = Absent({})
    /\ pc = "idle"
    /\ args = NoArgs
    /\ db = EmptyDb
    /\ fdb = {}
    /\ interrupt = FALSE
    /\ files = << >>
    /\ file_num = 1
    /\ node = 1
    /\ tok = 1
    /\ now = 0
    /\ save_time = 0
    /\ out = NoOutput
    /\ outcome = "none"
    /\ folded = {}
    /\ pfolded = {}
    /\ doneFiles = {}
    /\ resume = NoResume

\* The process is gone: its memory with it.
Exit(how) ==
    /\ pc' = "idle"
    /\ outcome' = how
    /\ args' = NoArgs
    /\ db' = EmptyDb
    /\ fdb' = {}
    /\ interrupt' = FALSE
    /\ files' = << >>
    /\ file_num' = 1
    /\ node' = 1
    /\ tok' = 1
    /\ now' = 0
    /\ save_time' = 0
    /\ out' = NoOutput
    /\ folded' = {}

\* The source tree is edited between two runs: p is written, or deleted.
ModifyTree(p, v) ==
    /\ pc = "idle"
    /\ v \in Versions(p) /\ v # tree[p]
    /\ tree' = [tree EXCEPT ![p] = v]
    /\ doneFiles' = doneFiles \ {p}
    /\ resume' = NoResume
    /\ UNCHANGED <<disk, pc, proc, outcome, folded, pfolded>>

\* `parse [--restart] input_file`, lines 157-171 and 77-87: the tables are
\* set up, the handler installed, the clock started and the files listed.
Launch(restart, savetime, input_file) ==
    /\ pc = "idle"
    /\ restart \/ (Loadable(strdb) /\ Loadable(filesdb))
    /\ args' = [cmd |-> "parse", restart |-> restart, savetime |-> savetime,
                input_file |-> input_file, string |-> << >>]
    /\ db' = InitialDb(restart, strdb)
    /\ fdb' = InitialFdb(restart, filesdb)
    /\ folded' = IF restart THEN {} ELSE pfolded
    /\ interrupt' = FALSE
    /\ now' = 0
    /\ save_time' = 0
    /\ \E fs \in get_cpp_files(tree, input_file) :
          /\ files' = fs
          /\ pc' = IF Len(fs) = 0 THEN "finish" ELSE "loop"
    /\ file_num' = 1
    /\ node' = 1
    /\ tok' = 1
    /\ resume' = IF ~restart /\ resume.on /\ resume.input = input_file
                   THEN [resume EXCEPT !.resumed = TRUE]
                   ELSE [on |-> TRUE, resumed |-> FALSE, input |-> input_file,
                         base |-> [db |-> InitialDb(restart, strdb),
                                   fdb |-> InitialFdb(restart, filesdb)]]
    /\ UNCHANGED <<tree, disk, outcome, pfolded, doneFiles, out>>

\* signal_handler (lines 19-23).
Signal ==
    /\ Running
    /\ args.cmd = "parse"
    /\ ~interrupt
    /\ interrupt' = TRUE
    /\ UNCHANGED <<tree, disk, pc, args, db, fdb, files, file_num, node, tok,
                   now, save_time, outcome, folded, pfolded, doneFiles, out, resume>>

\* Lines 121-124: the flag is set when the loop reaches a file.
Break ==
    /\ pc = "loop"
    /\ file_num <= Len(files)
    /\ LoopBreaks(interrupt)
    /\ pc' = "finish"
    /\ UNCHANGED <<tree, disk, args, db, fdb, interrupt, files, file_num, node,
                   tok, now, save_time, outcome, folded, pfolded, doneFiles, out, resume>>

\* Line 121: the list is used up.
LoopEnd ==
    /\ pc = "loop"
    /\ file_num > Len(files)
    /\ pc' = "finish"
    /\ UNCHANGED <<tree, disk, args, db, fdb, interrupt, files, file_num, node,
                   tok, now, save_time, outcome, folded, pfolded, doneFiles, out, resume>>

\* Lines 125, 93-96: the file's digest is known, "already done".
SkipFile ==
    /\ pc = "loop"
    /\ file_num <= Len(files)
    /\ ~LoopBreaks(interrupt)
    /\ AlreadyDone(CurHash, fdb)
    /\ file_num' = file_num + 1
    /\ UNCHANGED <<tree, disk, pc, args, db, fdb, interrupt, files, node, tok,
                   now, save_time, outcome, folded, pfolded, doneFiles, out, resume>>

\* Lines 125, 93-98: the file is new and is parsed.
ParseFile ==
    /\ pc = "loop"
    /\ file_num <= Len(files)
    /\ ~LoopBreaks(interrupt)
    /\ ~AlreadyDone(CurHash, fdb)
    /\ pc' = "walk"
    /\ node' = 1
    /\ tok' = 1
    /\ UNCHANGED <<tree, disk, args, db, fdb, interrupt, files, file_num,
                   now, save_time, outcome, folded, pfolded, doneFiles, out, resume>>

\* Lines 98-99: a node that is no function declaration.
SkipNode ==
    /\ AtNode
    /\ CurNodes[node].kind # "FUNCTION_DECL"
    /\ node' = node + 1
    /\ UNCHANGED <<tree, disk, pc, args, db, fdb, interrupt, files, file_num,
                   tok, now, save_time, outcome, folded, pfolded, doneFiles, out, resume>>

\* Lines 102-109: a qualifying literal of the function is folded in.
FoldToken ==
    /\ AtToken
    /\ Qualifies(CurNodes[node].tokens[tok])
    /\ db' = merge(db, get_hash(Strip(CurNodes[node].tokens[tok].spelling)),
                   CurNodes[node].spelling)
    /\ tok' = tok + 1
    /\ UNCHANGED <<tree, disk, pc, args, fdb, interrupt, files, file_num, node,
                   now, save_time, outcome, folded, pfolded, doneFiles, out, resume>>

\* Lines 102-104: any other token of the function.
SkipToken ==
    /\ AtToken
    /\ ~Qualifies(CurNodes[node].tokens[tok])
    /\ tok' = tok + 1
    /\ UNCHANGED <<tree, disk, pc, args, db, fdb, interrupt, files, file_num,
                   node, now, save_time, outcome, folded, pfolded, doneFiles, out, resume>>

\* Line 102: the function's tokens are used up.
NextNode ==
    /\ AtNode
    /\ CurNodes[node].kind = "FUNCTION_DECL"
    /\ tok > Len(CurNodes[node].tokens)
    /\ node' = node + 1
    /\ tok' = 1
    /\ UNCHANGED <<tree, disk, pc, args, db, fdb, interrupt, files, file_num,
                   now, save_time, outcome, folded, pfolded, doneFiles, out, resume>>

\* Lines 111-116: the file is marked and the clock read (curr_time); the
\* checkpoint is not due.
FileDoneKeep(curr_time) ==
    /\ InFile
    /\ WalkOver(node, CurNodes)
    /\ curr_time >= now /\ curr_time >= save_time
    /\ ~SaveDue(curr_time, save_time, args.savetime)
    /\ fdb' = fdb \cup {CurHash}
    /\ folded' = folded \cup {CurFile}
    /\ now' = curr_time
    /\ file_num' = file_num + 1
    /\ pc' = "loop"
    /\ UNCHANGED <<tree, disk, args, db, interrupt, files, node, tok,
                   save_time, outcome, pfolded, doneFiles, out, resume>>

\* Lines 111-118: the file is marked, the clock read (curr_time), both tables
\* are saved and the clock is read again (after) for save_time.
FileDoneSave(curr_time, after) ==
    /\ InFile
    /\ WalkOver(node, CurNodes)
    /\ curr_time >= now /\ curr_time >= save_time /\ after >= curr_time
    /\ SaveDue(curr_time, save_time, args.savetime)
    /\ fdb' = fdb \cup {CurHash}
    /\ folded' = folded \cup {CurFile}
    /\ strdb' = save_all(OnDisk, db, fdb')["strdb"]
    /\ filesdb' = save_all(OnDisk, db, fdb')["filesdb"]
    /\ pfolded' = folded'
    /\ now' = curr_time
    /\ save_time' = after
    /\ file_num' = file_num + 1
    /\ pc' = "loop"
    /\ UNCHANGED <<tree, args, db, interrupt, files, node, tok, outcome,
                   doneFiles, out, resume>>

\* Lines 172-173: the last save, and the process ends.
Finish ==
    /\ pc = "finish"
    /\ strdb' = save_all(OnDisk, db, fdb)["strdb"]
    /\ filesdb' = save_all(OnDisk, db, fdb)["filesdb"]
    /\ pfolded' = folded
    /\ doneFiles' = IF file_num > Len(files) THEN Range(files) ELSE {}
    /\ resume' = IF file_num > Len(files) THEN NoResume ELSE resume
    /\ Exit(IF file_num > Len(files) THEN "completed" ELSE "interrupted")
    /\ UNCHANGED tree

\* The texts `find` is asked for.
FindStrings == {Txt12, TxtC, TxtB, Txt9}

\* Mutant of find: the text is looked up with its opening quote on.
find_quoted(d, string) ==
    IF get_hash(<<DQUOTE>> \o string) \in DOMAIN d
      THEN [text |-> "Found in functions", size |-> 0,
            names |-> d[get_hash(<<DQUOTE>> \o string)]]
      ELSE [text |-> "String not found", names |-> {}, size |-> 0]

\* Lines 176-180: the answer of `find string`.
find(d, string) ==
    LET hash_value == get_hash(string)
    IN  IF hash_value \in DOMAIN d
          THEN [text |-> "Found in functions", names |-> d[hash_value], size |-> 0]
          ELSE [text |-> "String not found", names |-> {}, size |-> 0]

\* Lines 175-192: what the command prints.
Answer(a, d) ==
    CASE a.cmd = "find" -> find(d, a.string)
      [] a.cmd = "print" -> [text |-> "Database size",
                             names |-> { <<k, d[k]>> : k \in DOMAIN d },
                             size |-> Cardinality(DOMAIN d)]
      [] a.cmd = "info" -> [text |-> "Database size", names |-> {},
                            size |-> Cardinality(DOMAIN d)]
      [] OTHER -> [text |-> "Unknown command", names |-> {}, size |-> 0]

\* Mutant of SavesAtExit: every command ends with save_all().
SavesAtExit_always(cmd) == TRUE

\* Lines 166-192: save_all() is called in the parse case only.
SavesAtExit(cmd) == cmd = "parse"

\* `find string`, `print`, `info` or no command, lines 157-164: the tables
\* are loaded.
LaunchQuery(cmd, string) ==
    /\ pc = "idle"
    /\ Loadable(strdb) /\ Loadable(filesdb)
    /\ cmd = "find" \/ string = << >>
    /\ args' = [NoArgs EXCEPT !.cmd = cmd, !.string = string]
    /\ db' = InitialDb(FALSE, strdb)
    /\ fdb' = InitialFdb(FALSE, filesdb)
    /\ folded' = pfolded
    /\ pc' = "query"
    /\ UNCHANGED <<tree, disk, interrupt, files, file_num, node, tok, now,
                   save_time, out, outcome, pfolded, doneFiles, resume>>

\* Lines 175-192: the command prints its answer.
Reply ==
    /\ pc = "query"
    /\ out' = Answer(args, db)
    /\ pc' = "answered"
    /\ UNCHANGED <<tree, disk, args, db, fdb, interrupt, files, file_num, node,
                   tok, now, save_time, outcome, folded, pfolded, doneFiles,
                   resume>>

\* The query process ends.
QueryExit ==
    /\ pc = "answered"
    /\ strdb' = IF SavesAtExit(args.cmd)
                  THEN save_all(OnDisk, db, fdb)["strdb"] ELSE strdb
    /\ filesdb' = IF SavesAtExit(args.cmd)
                    THEN save_all(OnDisk, db, fdb)["filesdb"] ELSE filesdb
    /\ Exit(outcome)
    /\ UNCHANGED <<tree, pfolded, doneFiles, resume>>

\* The steps of a parse process.
RunStep ==
    \/ \E r \in BOOLEAN, t \in 0..MaxSaveTime, inp \in Paths \cup {Root} :
          Launch(r, t, inp)
    \/ Signal
    \/ Break
    \/ LoopEnd
    \/ SkipFile
    \/ ParseFile
    \/ SkipNode
    \/ FoldToken
    \/ SkipToken
    \/ NextNode
    \/ \E t \in 0..MaxTime : FileDoneKeep(t)
    \/ \E t, u \in 0..MaxTime : FileDoneSave(t, u)
    \/ Finish

Next ==
    \/ \E p \in Paths, v \in Contents \cup {NoFile} : ModifyTree(p, v)
    \/ RunStep
    \/ \E cmd \in {"find", "print", "info", "none"},
          string \in FindStrings \cup {<< >>} : LaunchQuery(cmd, string)
    \/ Reply
    \/ QueryExit

Spec == Init /\ [][Next]_vars

----------------------------------------------------------------------------
(* The process killed inside save_all(), and what the next process finds.  *)

\* Lines 111-117: the walk is over and the checkpoint is due.
AtCheckpoint == /\ InFile /\ WalkOver(node, CurNodes)
                /\ \E t \in now..MaxTime :
                      t >= save_time /\ SaveDue(t, save_time, args.savetime)

\* The process dies in save_all() (lines 25-32) after k complete writes;
\* torn: inside the next one, after open(filename, 'wb') emptied the file.
CrashInSave(k, torn) ==
    /\ pc = "finish" \/ AtCheckpoint
    /\ k > 0 \/ torn
    /\ LET s == IF pc = "finish" THEN fdb ELSE fdb \cup {CurHash}
           fo == IF pc = "finish" THEN folded ELSE folded \cup {CurFile}
           nd == DiskAt(OnDisk, db, s, k, torn)
       IN  /\ strdb' = nd["strdb"]
           /\ filesdb' = nd["filesdb"]
           /\ pfolded' = IF WritePos("strdb") <= k THEN fo ELSE pfolded
    /\ doneFiles' = {}
    /\ resume' = NoResume
    /\ Exit("crashed")
    /\ UNCHANGED tree

\* Lines 163-164: pickle.load raises on a file that was cut short, and the
\* process ends there.
LoadFail ==
    /\ pc = "idle"
    /\ ~(Loadable(strdb) /\ Loadable(filesdb))
    /\ outcome' = "fault"
    /\ doneFiles' = {}
    /\ resume' = NoResume
    /\ UNCHANGED <<tree, disk, pc, proc, folded, pfolded>>

\* The file versions of the trees on which processes are killed.
CrashContents == {1, 2, 3}

NextCrash ==
    \/ \E p \in Paths, v \in CrashContents \cup {NoFile} : ModifyTree(p, v)
    \/ RunStep
    \/ \E k \in 0..1, torn \in BOOLEAN : CrashInSave(k, torn)
    \/ LoadFail

SpecCrash == Init /\ [][NextCrash]_vars

----------------------------------------------------------------------------
(* The parser gives no translation unit.                                   *)

\* Line 98: index.parse(filepath) raises (TranslationUnitLoadError) instead
\* of returning a translation unit; nothing in process_file, process_path
\* or __main__ catches it, and the process ends with the traceback.
ParseRaise ==
    /\ pc = "loop"
    /\ file_num <= Len(files)
    /\ ~LoopBreaks(interrupt)
    /\ ~AlreadyDone(CurHash, fdb)
    /\ doneFiles' = {}
    /\ resume' = NoResume
    /\ Exit("fault")
    /\ UNCHANGED <<tree, disk, pfolded>>

NextFault ==
    \/ \E p \in Paths, v \in CrashContents \cup {NoFile} : ModifyTree(p, v)
    \/ RunStep
    \/ ParseRaise

SpecFault == Init /\ [][NextFault]_vars

----------------------------------------------------------------------------
(* What the properties below speak of.                                     *)

\* The index as a set of (digest, function name) pairs.
Pairs(d) == UNION { { <<k, n>> : n \in d[k] } : k \in DOMAIN d }

\* The text of a literal: its spelling without the two enclosing quotes.
LiteralText(spelling) == [k \in 1..(Len(spelling) - 2) |-> spelling[k + 1]]

\* A qualifying literal: a string-literal token whose text has more than 10
\* characters.
QualifyingLiteral(token) ==
    /\ token.kind = "LITERAL"
    /\ Len(token.spelling) >= 2
    /\ token.spelling[1] = DQUOTE
    /\ Len(LiteralText(token.spelling)) > 10

\* The (digest, function name) pairs a file version contributes.
NodeContribs(nd) ==
    IF nd.kind # "FUNCTION_DECL" THEN {}
    ELSE { <<get_hash(LiteralText(nd.tokens[t].spelling)), nd.spelling>> :
             t \in { u \in 1..Len(nd.tokens) : QualifyingLiteral(nd.tokens[u]) } }

Contribs ==
    [c \in Contents |->
       UNION { NodeContribs(Nodes[c][n]) : n \in 1..Len(Nodes[c]) }]

ContribsOf(S) == UNION { Contribs[c] : c \in S }

\* What a load of each persisted table yields.
PersistedDb == load_db(strdb)
PersistedFdb == load_fdb(filesdb)

\* The file versions the loop is past.
PastFiles == { tree[files[k]] : k \in 1..(file_num - 1) }

SubIndex(a, b) == DOMAIN a \subseteq DOMAIN b /\ Pairs(a) \subseteq Pairs(b)

\* The step is one of a --restart run.
RestartActor == \/ Running /\ args.restart
                \/ ~Running /\ pc' # "idle" /\ args'.restart

----------------------------------------------------------------------------
(* C1 *)

\* The run follows a completed run and lists only files that run listed and
\* that did not change since.
Rerun == /\ Running
         /\ outcome = "completed"
         /\ ~args.restart
         /\ Range(files) \subseteq doneFiles

\* C1: idempotence of re-indexing.  During a parse run without --restart that
\* follows a completed run over the same unchanged files, no file is parsed,
\* the tables in memory stay those the first run saved, and no step changes
\* either persisted table, the final save included.
C1_Idempotent ==
    [][Rerun => /\ pc' # "walk"
                /\ db = PersistedDb
                /\ fdb = PersistedFdb
                /\ strdb' = strdb
                /\ filesdb' = filesdb]_vars

\* A second run that has gone past two files of a non-empty index.
C1_Witness == /\ Rerun
              /\ pc = "finish"
              /\ Len(files) = 2
              /\ Cardinality(fdb) >= 2
              /\ db # EmptyDb

----------------------------------------------------------------------------
(* C2 *)

\* C2: input errors leave persisted state untouched.  A parse run whose path
\* yields no file ends with both persisted tables holding what they held
\* before the run, with or without --restart.
C2_InputErrorKeepsTables ==
    [][(pc = "finish" /\ Len(files) = 0 /\ pc' = "idle")
         => /\ PersistedDb' = PersistedDb
            /\ PersistedFdb' = PersistedFdb]_vars

----------------------------------------------------------------------------
(* C3 *)

\* C3: processed-file invariant.  In every state of a run, a digest is in
\* the file-digest set only if every qualifying literal of every function of
\* the file version with that digest is in the reverse index.
C3_ProcessedFiles ==
    \A c \in Contents :
        get_file_hash_xx[c] \in fdb => Contribs[c] \subseteq Pairs(db)

\* In the middle of a file whose first literal is folded, after another file.
C3_Witness == /\ InFile
              /\ tok > 1
              /\ fdb # {}
              /\ CurHash \notin fdb
              /\ Contribs[CurFile] # {}
              /\ ~(Contribs[CurFile] \subseteq Pairs(db))

----------------------------------------------------------------------------
(* C4 *)

\* C4: interruption is file-granular.  A file that was begun is left only
\* by completing it (digest added, all its literals folded), flag or no flag;
\* the run goes to its end only from the loop head; and with the flag set at
\* the loop head no further file is begun.
C4_FileGranular ==
    [][/\ InFile => pc' \in {"walk", "loop"}
       /\ (InFile /\ pc' = "loop")
            => /\ CurHash \in fdb'
               /\ Contribs[CurFile] \subseteq Pairs(db')
               /\ file_num' = file_num + 1
       /\ pc' = "finish" => pc \in {"idle", "loop", "finish"}
       /\ (pc = "loop" /\ interrupt)
            => /\ pc' \in {"loop", "finish"}
               /\ file_num' = file_num
               /\ db' = db /\ fdb' = fdb]_vars

\* The signal has arrived inside a file, with a literal to fold and another
\* file to come.
C4_Witness == /\ InFile
              /\ interrupt
              /\ file_num < Len(files)
              /\ ~(Contribs[CurFile] \subseteq Pairs(db))

----------------------------------------------------------------------------
(* C5 *)

\* C5: no completed work is lost on interruption.  When an interrupted run
\* exits, both tables have been written and they hold the digest and every
\* contribution of each file the loop had completed.
C5_InterruptedRunSaved ==
    [][(pc = "finish" /\ file_num <= Len(files) /\ pc' = "idle")
         => /\ outcome' = "interrupted"
            /\ strdb'.st = "ok" /\ filesdb'.st = "ok"
            /\ PersistedDb' = db
            /\ PersistedFdb' = fdb
            /\ \A c \in PastFiles :
                  /\ get_file_hash_xx[c] \in PersistedFdb'
                  /\ Contribs[c] \subseteq Pairs(PersistedDb')]_vars

\* An interrupted run about to exit, with a completed file only in memory.
C5_Witness == /\ pc = "finish"
              /\ 1 < file_num /\ file_num <= Len(files)
              /\ strdb.st = "absent"
              /\ ContribsOf(PastFiles) # {}

----------------------------------------------------------------------------
(* C6 *)

\* C6: per-table persistence is all-or-nothing.  Whatever happens to the
\* process, a save cut short included, each file is left either as it was or
\* holding a complete table that a load can read.
C6_AllOrNothing ==
    [][/\ strdb' = strdb \/ strdb'.st = "ok"
       /\ filesdb' = filesdb \/ filesdb'.st = "ok"]_vars

----------------------------------------------------------------------------
(* C7 *)

\* Every digest of the persisted file-digest set has its file's
\* contributions in the persisted reverse index.
FdbCovered ==
    (Loadable(strdb) /\ Loadable(filesdb))
      => \A c \in Contents :
            get_file_hash_xx[c] \in PersistedFdb
              => Contribs[c] \subseteq Pairs(PersistedDb)

\* C7, as claimed: the persisted reverse index never holds the contributions
\* of a file whose digest the persisted file-digest set lacks.
C7_IndexNeverAhead ==
    (Loadable(strdb) /\ Loadable(filesdb))
      => \A c \in pfolded : get_file_hash_xx[c] \in PersistedFdb

\* C7, amended: the gap a crash between the two writes leaves is the reverse
\* index ahead of the file-digest set.  No step of a run without --restart,
\* a crash inside save_all() included, makes the persisted file-digest set
\* record a file whose contributions the persisted reverse index lacks.
C7_DigestSetNeverAhead ==
    [][(~RestartActor /\ FdbCovered) => FdbCovered']_vars

\* After a crash, both files load, and the index holds the contributions of
\* a file that the file-digest set does not record.
C7_Witness == /\ outcome = "crashed"
              /\ strdb.st = "ok" /\ filesdb.st = "ok"
              /\ \E c \in pfolded : /\ get_file_hash_xx[c] \notin PersistedFdb
                                    /\ Contribs[c] # {}
                                    /\ Contribs[c] \subseteq Pairs(PersistedDb)

----------------------------------------------------------------------------
(* C8 *)

\* C8: restart semantics.  When a --restart run that went through all its
\* files exits, the tables in memory and the tables it persists hold exactly
\* the digests and the contributions of the files of this run.
C8_RestartIsFresh ==
    [][(pc = "finish" /\ pc' = "idle" /\ args.restart
          /\ file_num > Len(files))
         => /\ Pairs(db) = ContribsOf(PastFiles)
            /\ \A k \in DOMAIN db : db[k] # {}
            /\ fdb = { get_file_hash_xx[c] : c \in PastFiles }
            /\ PersistedDb' = db
            /\ PersistedFdb' = fdb]_vars

\* A --restart run at its end, over a persisted index that holds an entry
\* and a digest this run did not produce.
C8_Witness == /\ pc = "finish"
              /\ args.restart
              /\ file_num > Len(files)
              /\ Len(files) > 0
              /\ Pairs(PersistedDb) \ Pairs(db) # {}
              /\ PersistedFdb \ fdb # {}

----------------------------------------------------------------------------
(* C9 *)

\* C9: tables never retract.  Across the steps of runs without --restart, a
\* load of either persisted table never yields less than before, the tables
\* in memory only grow, and a run starts from what is persisted.
C9_NeverRetract ==
    [][~RestartActor
         => /\ SubIndex(PersistedDb, PersistedDb')
            /\ PersistedFdb \subseteq PersistedFdb'
            /\ (Running /\ pc' # "idle")
                 => (SubIndex(db, db') /\ fdb \subseteq fdb')
            /\ (~Running /\ pc' # "idle")
                 => (db' = PersistedDb /\ fdb' = PersistedFdb)]_vars

\* a.c was edited since it was indexed: the run has added the digest of the
\* new version, and the digest and the entry of the old one are still there.
C9_Witness == /\ Running /\ ~args.restart
              /\ tree[PathA] = 3
              /\ get_file_hash_xx[1] \in fdb
              /\ get_file_hash_xx[3] \in fdb
              /\ Contribs[1] \subseteq Pairs(db)
              /\ Contribs[3] \subseteq Pairs(db)

----------------------------------------------------------------------------
(* C10 *)

\* C10: reverse-index exactness.  At every file boundary of a run, the pairs
\* (digest, function name) of the index are exactly those that the file
\* versions folded in since the index was empty contribute, and no entry is
\* empty; so a lookup never yields a name that occurred only with a literal
\* of another digest.
C10_Exact ==
    pc \in {"loop", "finish"}
      => /\ Pairs(db) = ContribsOf(folded)
         /\ \A k \in DOMAIN db : db[k] # {}

\* Two versions are folded in, f and g share the entry of one digest (their
\* literals differ) and f has a second entry.
C10_Witness == /\ pc = "loop"
               /\ Cardinality(folded) >= 2
               /\ \E k \in DOMAIN db : Cardinality(db[k]) >= 2
               /\ Cardinality(DOMAIN db) >= 2

----------------------------------------------------------------------------
(* C11 *)

\* A find, print or info process runs (or the process given no command).
Querying == pc \in {"query", "answered"}

\* C11: queries are read-only.  No step of a find, print or info process
\* changes the reverse index or the file-digest set in memory, and none
\* writes either file, whatever the argument and the loaded tables; the
\* process starts from what the files hold.
C11_QueriesReadOnly ==
    [][/\ Querying => /\ strdb' = strdb /\ filesdb' = filesdb
                      /\ pc' # "idle" => (db' = db /\ fdb' = fdb)
       /\ (pc = "idle" /\ pc' = "query")
            => /\ db' = PersistedDb /\ fdb' = PersistedFdb
               /\ disk' = disk]_vars

\* find has answered "not found" from a loaded index that is not empty.
C11_Witness == /\ pc = "answered"
               /\ args.cmd = "find"
               /\ out.text = "String not found"
               /\ db # EmptyDb
               /\ fdb # {}

----------------------------------------------------------------------------
(* C12 *)

\* C12: minimum-length filter.  Each step over a token of a function
\* declaration adds to the index exactly the pair (digest of the spelling
\* without its first and last character, name of the function) when the
\* token is a string literal whose spelling begins with a double quote and
\* whose content between the quotes has more than 10 characters, and leaves
\* the index as it is for every other token.
C12_LengthFilter ==
    [][(AtToken /\ tok' = tok + 1)
         => LET token == CurNodes[node].tokens[tok]
                pair == <<get_hash(LiteralText(token.spelling)),
                          CurNodes[node].spelling>>
            IN  IF /\ token.kind = "LITERAL"
                   /\ Len(token.spelling) > 0
                   /\ token.spelling[1] = DQUOTE
                   /\ Len(token.spelling) - 2 > 10
                  THEN /\ Pairs(db') = Pairs(db) \cup {pair}
                       /\ DOMAIN db' = DOMAIN db \cup {pair[1]}
                  ELSE db' = db]_vars

\* One run has gone over literals of 9, 10 and 11 characters: the one of 11
\* is in the index under f, the two others are not.
C12_Witness == /\ InFile
               /\ CurFile = 1 /\ node = 2 /\ tok = 4
               /\ 3 \in folded
               /\ <<get_hash(TxtA), "f">> \in Pairs(db)
               /\ get_hash(Txt10) \notin DOMAIN db
               /\ get_hash(Txt9) \notin DOMAIN db

----------------------------------------------------------------------------
(* C13 *)

\* The (function name, text) pairs of the qualifying literals of a version.
Literals(c) ==
    UNION { IF Nodes[c][n].kind # "FUNCTION_DECL" THEN {}
            ELSE { <<Nodes[c][n].spelling,
                     LiteralText(Nodes[c][n].tokens[t].spelling)>> :
                     t \in { u \in 1..Len(Nodes[c][n].tokens) :
                               QualifyingLiteral(Nodes[c][n].tokens[u]) } } :
            n \in 1..Len(Nodes[c]) }

\* The versions in which f contains "0123456789AB" and there is no other
\* qualifying literal.
OnlyTxt12 == { c \in Contents : Literals(c) = { <<"f", Txt12>> } }

\* C13: parse, then find.  When the persisted index was made by completed
\* runs over files in which f contains "0123456789AB" and nothing else
\* qualifies, it has one entry, with the name set {f}; a find process that
\* loaded it answers f for 0123456789AB and "not found" for any other text.
C13_ParseThenFind ==
    /\ (pc = "idle" /\ outcome = "completed"
          /\ pfolded # {} /\ pfolded \subseteq OnlyTxt12)
         => /\ strdb.st = "ok"
            /\ Cardinality(DOMAIN PersistedDb) = 1
            /\ \A k \in DOMAIN PersistedDb : PersistedDb[k] = {"f"}
    /\ (pc = "answered" /\ args.cmd = "find" /\ outcome = "completed"
          /\ pfolded # {} /\ pfolded \subseteq OnlyTxt12)
         => IF args.string = Txt12
              THEN out.text = "Found in functions" /\ out.names = {"f"}
              ELSE out.text = "String not found" /\ out.names = {}

\* After a run over b.cpp with f() { "0123456789AB"; }, find 0123456789AB
\* has answered.
C13_Witness == /\ pc = "answered"
               /\ args.cmd = "find"
               /\ args.string = Txt12
               /\ outcome = "completed"
               /\ pfolded = {4}
               /\ tree[PathB] = 4
               /\ out.names = {"f"}

----------------------------------------------------------------------------
(* C14 *)

\* C14: --restart discards both persisted tables before processing starts.
\* While a --restart run is at its files or at its end, a load of either
\* file yields nothing but what the run itself has put into its tables.
C14_RestartDiscards ==
    (pc \in {"loop", "walk", "finish"} /\ args.restart /\ Len(files) > 0)
      => /\ SubIndex(PersistedDb, db)
         /\ PersistedFdb \subseteq fdb

----------------------------------------------------------------------------
(* C15 *)

\* C15: change detection.  The step that takes the loop to a file either
\* begins parsing it or passes it by; it begins parsing exactly when the
\* file's digest is not in the file-digest set, and when it passes the file
\* by, the index, the file-digest set and both files stay as they are.
C15_ChangeDetection ==
    [][(pc = "loop" /\ file_num <= Len(files)
          /\ (pc' = "walk" \/ file_num' = file_num + 1))
         => /\ (pc' = "walk") <=> (CurHash \notin fdb)
            /\ (pc' = "walk") <=> (file_num' = file_num)
            /\ CurHash \in fdb => /\ db' = db /\ fdb' = fdb
                                  /\ strdb' = strdb /\ filesdb' = filesdb
                                  /\ save_time' = save_time]_vars

\* The second file of a first run has the bytes of the first one and was
\* passed by.
C15_Witness == /\ pc = "loop"
               /\ file_num = 3
               /\ Len(files) = 2
               /\ tree[PathA] = tree[PathB]
               /\ strdb.st = "absent"
               /\ Cardinality(fdb) = 1

----------------------------------------------------------------------------
(* C16 *)

\* C16: merge contract.  The step that folds the pair (d, n) creates the
\* entry d -> {n} when the index has no key d, adds n to the entry of d
\* otherwise, and changes no other entry; folding a pair the index holds
\* leaves the index as it is, and merging the pair a second time changes
\* nothing.  Hence, at a file boundary, when the files folded in are two or
\* more files in which only f contains one and the same qualifying literal,
\* the index has exactly one entry, with the name set {f}.
C16_MergeContract ==
    [][/\ (AtToken /\ tok' = tok + 1
            /\ QualifyingLiteral(CurNodes[node].tokens[tok]))
         => LET d == get_hash(LiteralText(CurNodes[node].tokens[tok].spelling))
                n == CurNodes[node].spelling
            IN  /\ DOMAIN db' = DOMAIN db \cup {d}
                /\ d \notin DOMAIN db => db'[d] = {n}
                /\ d \in DOMAIN db => db'[d] = db[d] \cup {n}
                /\ \A k \in DOMAIN db \ {d} : db'[k] = db[k]
                /\ (d \in DOMAIN db /\ n \in db[d]) => db' = db
                /\ merge(db', d, n) = db'
       /\ (pc \in {"loop", "finish"} /\ Cardinality(folded) >= 2
            /\ folded \subseteq OnlyTxt12)
         => /\ DOMAIN db = {get_hash(Txt12)}
            /\ db[get_hash(Txt12)] = {"f"}]_vars

\* a.c and b.cpp differ, each defines f with "0123456789AB" and nothing
\* else qualifies; both are folded into an index that was empty.
C16_Witness == /\ pc = "loop"
               /\ file_num = 3
               /\ folded = {4, 5}
               /\ tree[PathA] = 5 /\ tree[PathB] = 4
               /\ db[get_hash(Txt12)] = {"f"}

----------------------------------------------------------------------------
(* C17 *)

\* C17: checkpoint policy.  At the step that completes a file (now' is the
\* clock reading of the test), both tables are written as they are in
\* memory and the last-save time is set to a reading not before that one
\* exactly when the time since the last save, or since the start, is more
\* than --savetime; otherwise neither file nor the last-save time changes.
\* A parse process writes the files at no other step but its last one, and
\* the pair a checkpoint writes has, for every digest of the file-digest
\* set, the contributions of that file in the index.
C17_CheckpointPolicy ==
    [][/\ (InFile /\ pc' = "loop")
         => IF now' - save_time > args.savetime
              THEN /\ strdb'.st = "ok" /\ filesdb'.st = "ok"
                   /\ PersistedDb' = db' /\ PersistedFdb' = fdb'
                   /\ save_time' >= now'
                   /\ FdbCovered'
              ELSE /\ strdb' = strdb /\ filesdb' = filesdb
                   /\ save_time' = save_time
       /\ (pc \in {"loop", "walk"} /\ disk' # disk)
         => (InFile /\ pc' = "loop")]_vars

\* A file was completed with the elapsed time equal to the threshold, and
\* nothing has been written.
C17_Witness == /\ pc = "loop"
               /\ file_num > 1
               /\ fdb # {}
               /\ args.savetime = 1
               /\ now - save_time = 1
               /\ strdb.st = "absent" /\ filesdb.st = "absent"

----------------------------------------------------------------------------
(* C18 *)

\* C18: parser failure on one file.  When the loop is at a file that has to
\* be parsed and the step it takes does not begin a walk (the parser gave
\* no traversal), the step completes the file: its digest is added and the
\* loop goes on to the next file, so the run reaches its final save.
C18_ParserFailureTolerated ==
    [][(pc = "loop" /\ file_num <= Len(files) /\ ~interrupt
          /\ CurHash \notin fdb /\ pc' # "walk" /\ pc' # pc)
         => /\ pc' = "loop"
            /\ file_num' = file_num + 1
            /\ CurHash \in fdb']_vars

----------------------------------------------------------------------------
(* C19 *)

\* The file versions a run lists.
Listed == { tree[files[k]] : k \in 1..Len(files) }

\* What a parse run that is not interrupted leaves, from the tables base,
\* over the set S of file versions: the digests of S are added, and the
\* contributions of the versions whose digest was not known are folded in.
RunPairs(base, S) ==
    Pairs(base.db)
      \cup ContribsOf({ c \in S : get_file_hash_xx[c] \notin base.fdb })
RunDigests(base, S) == base.fdb \cup { get_file_hash_xx[c] : c \in S }

\* C19: resume equivalence.  When the last run of a chain of runs on one
\* path of an unchanged tree completes, the runs before it in the chain
\* having been interrupted (any number of them, each at any file), the
\* persisted tables are those one uninterrupted run leaves from the tables
\* the chain started from.
C19_ResumeEquivalence ==
    [][(pc = "finish" /\ pc' = "idle" /\ file_num > Len(files)
          /\ resume.on /\ resume.resumed)
         => /\ Pairs(PersistedDb') = RunPairs(resume.base, Listed)
            /\ \A k \in DOMAIN PersistedDb' : PersistedDb'[k] # {}
            /\ PersistedFdb' = RunDigests(resume.base, Listed)]_vars

\* The third run of a chain is at its end: the two before it were
\* interrupted, the first after one file of two; the chain started from
\* tables that were not empty.
C19_Witness == /\ pc = "finish"
               /\ file_num > Len(files)
               /\ Len(files) = 2
               /\ resume.on /\ resume.resumed
               /\ resume.base.fdb # {}
               /\ Cardinality(PersistedFdb) = Cardinality(resume.base.fdb) + 1
               /\ Cardinality(fdb) = Cardinality(resume.base.fdb) + 2

----------------------------------------------------------------------------
(* C20 *)

\* C20: enumeration-order independence.  When a run that was not
\* interrupted and continues no interrupted run completes, its tables are
\* those determined by the tables it started from and the set of the files
\* it listed, whatever their order, and the file-digest set holds the
\* digest of every file listed.
C20_OrderIndependent ==
    [][(pc = "finish" /\ pc' = "idle" /\ file_num > Len(files)
          /\ resume.on /\ ~resume.resumed)
         => /\ Pairs(db) = RunPairs(resume.base, Listed)
            /\ fdb = RunDigests(resume.base, Listed)
            /\ \A p \in Range(files) : get_file_hash_xx[tree[p]] \in fdb
            /\ PersistedDb' = db /\ PersistedFdb' = fdb]_vars

\* A run that listed b.cpp before a.c is at its end; the two files differ,
\* both were parsed, and each has a literal the other has not.
C20_Witness == /\ pc = "finish"
               /\ file_num > Len(files)
               /\ files = <<PathB, PathA>>
               /\ resume.on /\ ~resume.resumed
               /\ tree[PathA] = 3 /\ tree[PathB] = 2
               /\ resume.base.fdb = {}
               /\ Cardinality(fdb) = 2

====
